---- MODULE Spec2Model ----
(***************************************************************************)
(* Copy-trading relay server (CopyTrade_Server.py): the in-memory account  *)
(* registry with its master pointer, the bounded signal log, the           *)
(* background cleanup thread and the request handlers that touch them.     *)
(*                                                                         *)
(* Each handler runs on its own thread.  A step of the model is one access *)
(* to the shared state (the two module-level containers, master_account,   *)
(* the wall clock) or one critical section; a statement that touches only  *)
(* the handler's own locals is folded into the step that follows it.       *)
(* A "with accounts_lock:" / "with signals_lock:" block is entered only    *)
(* when the lock is free; where the block is a single step the lock is     *)
(* taken and released inside that step.                                    *)
(***************************************************************************)
EXTENDS Integers, Sequences, FiniteSets, TLC

(***************************************************************************)
(* Program constants                                                       *)
(***************************************************************************)
StaleSeconds == 300
MaxSignals == 1000
SecondsPerHour == 3600
DefaultHours == 24

(***************************************************************************)
(* Bounds of the model                                                     *)
(***************************************************************************)
\* The clock counts ticks; TicksPerSecond ticks make one second, so that
\* time.time() and int(time.time()) differ.
TicksPerSecond == 2
\* Requests the server receives in one behaviour.
MaxRequests == 3

\* Every request is served by a thread of its own; two may be running at a
\* time, and a new one takes the first free name.
ThreadNames == <<"t1", "t2">>
Threads == {ThreadNames[i] : i \in 1..Len(ThreadNames)}

(***************************************************************************)
(* Python values.  None is the Python None; a dict is a function whose     *)
(* domain is its key set.                                                  *)
(***************************************************************************)
None == "None"
EmptyDict == [k \in {} |-> None]

\* dict.get(key, default)
Get(d, k, default) == IF k \in DOMAIN d THEN d[k] ELSE default

\* "not account_id": None and the empty string are falsy
Falsy(v) == v = None \/ v = ""

\* {**base, **data}: the keys of data win
Merge(base, data) == data @@ base

\* dict without the keys in S
Without(d, S) == [k \in DOMAIN d \ S |-> d[k]]

(***************************************************************************)
(* Time.  datetime.now().isoformat() writes a date-time as text, seconds   *)
(* and fraction apart; datetime.fromisoformat() reads it back.             *)
(***************************************************************************)
isoformat(t) == [sec |-> t \div TicksPerSecond, frac |-> t % TicksPerSecond]
fromisoformat(s) == s.sec * TicksPerSecond + s.frac

StaleTicks == StaleSeconds * TicksPerSecond
HourTicks == SecondsPerHour * TicksPerSecond

\* The instants at which the registry is exercised: the start, and the two
\* instants at which an account last seen at the start is exactly
\* StaleSeconds old and one tick older.
RegistryInstants == {0, StaleTicks, StaleTicks + 1}

\* (current_time - last_seen).total_seconds() > 300
is_stale(acc, current_time) ==
    current_time - fromisoformat(acc["last_seen"]) > StaleSeconds * TicksPerSecond

(***************************************************************************)
(* Requests the clients send                                               *)
(***************************************************************************)
RegisterRequests ==
    { [data |-> [account_id |-> "A1", name |-> "Master", is_master |-> TRUE,
                 equity |-> 100, profit |-> 10],
       remote_addr |-> "10.0.0.1"],
      [data |-> [account_id |-> "A1", license_owner |-> "bob", license_key |-> "K1"],
       remote_addr |-> "10.0.0.2"],
      [data |-> [account_id |-> "A2", name |-> "Second", is_master |-> TRUE],
       remote_addr |-> "10.0.0.3"],
      [data |-> [name |-> "NoId", is_master |-> TRUE],
       remote_addr |-> "10.0.0.4"],
      [data |-> [account_id |-> "", is_master |-> TRUE],
       remote_addr |-> "10.0.0.5"] }

HeartbeatRequests ==
    { [account_id |-> "A1", equity |-> 500],
      [account_id |-> "A2", profit |-> 7] }

DisconnectRequests ==
    { [account_id |-> "A1"], [account_id |-> "A2"] }

\* Line 12: the shared secret the publisher sends in x-api-key
API_KEY == "change_me_secret"

\* A JSON value that is no number (a date written as text) in a payload's
\* "timestamp" field; ordering it against a float raises TypeError.
NotANumber == -1
IsNumber(v) == v >= 0

PlainPayload == [action |-> "buy", symbol |-> "EURUSD"]

\* POST /signal: the payload is a free-form object, and may carry fields named
\* like the ones the server adds.
SignalRequests ==
    { [api_key |-> API_KEY, data |-> PlainPayload],
      [api_key |-> API_KEY,
       data |-> [action |-> "sell", symbol |-> "EURUSD", timestamp |-> NotANumber]],
      [api_key |-> API_KEY,
       data |-> [action |-> "buy", symbol |-> "EURUSD", master_account |-> "A2"]],
      [api_key |-> "guess", data |-> PlainPayload] }

\* GET /signals?hours=h
QueryRequests == { [hours |-> 0], [hours |-> 1], EmptyDict }

\* The instants at which the signal log is exercised: two instants of the
\* first second, and the instant at which a signal of the first instant is
\* one tick more than an hour old, and one of the second instant exactly
\* an hour.
SignalInstants == {0, 1, HourTicks + 1}

VARIABLES
    connected_accounts,  \* dict account_id -> account record
    master_account,      \* None or the account_id of the master
    recent_signals,      \* list of signal dicts, oldest first
    accounts_lock,       \* "free" or the thread holding it
    signals_lock,        \* "free" or the thread holding it
    now,                 \* the wall clock, in ticks
    pc,                  \* handler thread -> where it stands
    loc,                 \* handler thread -> its locals
    cleanup,             \* the cleanup thread: its position and locals
    response,            \* the last response a handler returned
    published,           \* history: every signal appended, in order
    requests             \* history: the number of requests received

vars == <<connected_accounts, master_account, recent_signals, accounts_lock,
          signals_lock, now, pc, loc, cleanup, response, published,
          requests>>

registry == <<connected_accounts, master_account>>

Idle == [op |-> "none"]

Init ==
    /\ connected_accounts = EmptyDict
    /\ master_account = None
    /\ recent_signals = <<>>
    /\ accounts_lock = "free"
    /\ signals_lock = "free"
    /\ now = 0
    /\ pc = [t \in Threads |-> "idle"]
    /\ loc = [t \in Threads |-> Idle]
    /\ cleanup = [pc |-> "sleep", current_time |-> 0, stale_accounts |-> {},
                  error_logged |-> FALSE]
    /\ response = [op |-> "none", status |-> 0]
    /\ published = <<>>
    /\ requests = 0

\* A request arrives and thread t is started for it.
Accept(t) ==
    /\ requests < MaxRequests
    /\ requests' = requests + 1
    /\ \E i \in 1..Len(ThreadNames) :
          /\ ThreadNames[i] = t
          /\ pc[t] = "idle"
          /\ \A j \in 1..(i - 1) : pc[ThreadNames[j]] # "idle"

\* The thread returns: it is idle again and its locals are gone.
Return(t, resp) ==
    /\ pc' = [pc EXCEPT ![t] = "idle"]
    /\ loc' = [loc EXCEPT ![t] = Idle]
    /\ response' = resp

Goto(t, label, locals) ==
    /\ pc' = [pc EXCEPT ![t] = label]
    /\ loc' = [loc EXCEPT ![t] = locals]
    /\ UNCHANGED response

(***************************************************************************)
(* The clock                                                               *)
(***************************************************************************)
\* The clock moves on to a later instant.
Tick(instants) ==
    /\ \E later \in instants : later > now /\ now' = later
    /\ UNCHANGED <<connected_accounts, master_account, recent_signals,
                   accounts_lock, signals_lock, pc, loc, cleanup, response,
                   published, requests>>

(***************************************************************************)
(* POST /register                                                          *)
(***************************************************************************)
account_data(data, remote_addr, since, seen) ==
    [account_id |-> data["account_id"],
     name |-> Get(data, "name", "Unknown"),
     is_master |-> Get(data, "is_master", FALSE),
     connected_since |-> since,
     last_seen |-> seen,
     equity |-> Get(data, "equity", 0),
     profit |-> Get(data, "profit", 0),
     status |-> "connected",
     ip_address |-> remote_addr,
     license_owner |-> Get(data, "license_owner", None),
     license_key |-> Get(data, "license_key", None)]

\* register_account_begin that takes is_master into account before it looks
\* at the account_id
register_account_begin_master_first(t, req) ==
    /\ Accept(t)
    /\ IF Falsy(Get(req.data, "account_id", None))
       THEN /\ Return(t, [op |-> "register", status |-> 400])
            /\ master_account' = IF Get(req.data, "is_master", FALSE)
                                  THEN Get(req.data, "account_id", None)
                                  ELSE master_account
       ELSE /\ Goto(t, "reg_seen",
                    [op |-> "register", data |-> req.data,
                     remote_addr |-> req.remote_addr, since |-> isoformat(now)])
            /\ UNCHANGED master_account
    /\ UNCHANGED <<connected_accounts, recent_signals,
                   accounts_lock, signals_lock, now, cleanup, published>>

\* Lines 131-143: the request is read; without an account_id it is refused,
\* else the clock is read for connected_since.
register_account_begin(t, req) ==
    /\ Accept(t)
    /\ IF Falsy(Get(req.data, "account_id", None))
       THEN Return(t, [op |-> "register", status |-> 400])
       ELSE Goto(t, "reg_seen",
                 [op |-> "register", data |-> req.data,
                  remote_addr |-> req.remote_addr, since |-> isoformat(now)])
    /\ UNCHANGED <<connected_accounts, master_account, recent_signals,
                   accounts_lock, signals_lock, now, cleanup, published>>

\* Lines 144-152: the clock is read again for last_seen; account_data is built.
register_account_seen(t) ==
    /\ pc[t] = "reg_seen"
    /\ Goto(t, "reg_store",
            [op |-> "register",
             is_master |-> Get(loc[t].data, "is_master", FALSE),
             account_data |-> account_data(loc[t].data, loc[t].remote_addr,
                                           loc[t].since, isoformat(now))])
    /\ UNCHANGED <<connected_accounts, master_account, recent_signals,
                   accounts_lock, signals_lock, now, cleanup, published, requests>>

\* register_account_store without "with accounts_lock:"
register_account_store_unlocked(t) ==
    /\ pc[t] = "reg_store"
    /\ LET acc == loc[t].account_data
           account_id == acc["account_id"]
       IN /\ master_account' = IF loc[t].is_master THEN account_id ELSE master_account
          /\ connected_accounts' = (account_id :> acc) @@ connected_accounts
          /\ Return(t, [op |-> "register", status |-> 200])
    /\ UNCHANGED <<recent_signals, accounts_lock, signals_lock, now, cleanup,
                   published, requests>>

\* register_account_store that makes every account it stores the master
register_account_store_always_master(t) ==
    /\ pc[t] = "reg_store"
    /\ accounts_lock = "free"
    /\ LET acc == loc[t].account_data
           account_id == acc["account_id"]
       IN /\ master_account' = account_id
          /\ connected_accounts' = (account_id :> acc) @@ connected_accounts
          /\ Return(t, [op |-> "register", status |-> 200])
    /\ UNCHANGED <<recent_signals, accounts_lock, signals_lock, now, cleanup,
                   published, requests>>

\* register_account_store that takes the is_master flag off the record of the
\* master it replaces
register_account_store_demotes(t) ==
    /\ pc[t] = "reg_store"
    /\ accounts_lock = "free"
    /\ LET acc == loc[t].account_data
           account_id == acc["account_id"]
           demoted == IF loc[t].is_master /\ master_account \in DOMAIN connected_accounts
                      THEN [connected_accounts EXCEPT
                              ![master_account]["is_master"] = FALSE]
                      ELSE connected_accounts
       IN /\ master_account' = IF loc[t].is_master THEN account_id ELSE master_account
          /\ connected_accounts' = (account_id :> acc) @@ demoted
          /\ Return(t, [op |-> "register", status |-> 200])
    /\ UNCHANGED <<recent_signals, accounts_lock, signals_lock, now, cleanup,
                   published, requests>>

\* Lines 154-171: under accounts_lock the master pointer is set when is_master,
\* and the record replaces whatever the id held.
register_account_store(t) ==
    /\ pc[t] = "reg_store"
    /\ accounts_lock = "free"
    /\ LET acc == loc[t].account_data
           account_id == acc["account_id"]
       IN /\ master_account' = IF loc[t].is_master THEN account_id ELSE master_account
          /\ connected_accounts' = (account_id :> acc) @@ connected_accounts
          /\ Return(t, [op |-> "register", status |-> 200])
    /\ UNCHANGED <<recent_signals, accounts_lock, signals_lock, now, cleanup,
                   published, requests>>

(***************************************************************************)
(* POST /heartbeat                                                         *)
(***************************************************************************)
\* heartbeat_begin that registers an id it does not know
heartbeat_begin_upsert(t, data) ==
    /\ Accept(t)
    /\ accounts_lock = "free"
    /\ LET account_id == Get(data, "account_id", None)
       IN /\ connected_accounts' =
                 (account_id :> account_data(data, None, isoformat(now), isoformat(now)))
                     @@ connected_accounts
          /\ Return(t, [op |-> "heartbeat", status |-> 200])
    /\ UNCHANGED <<master_account, accounts_lock, recent_signals, signals_lock,
                   now, cleanup, published>>

\* heartbeat_begin without "with accounts_lock:"
heartbeat_begin_unlocked(t, data) ==
    /\ Accept(t)
    /\ LET account_id == Get(data, "account_id", None)
       IN IF account_id \in DOMAIN connected_accounts
          THEN /\ connected_accounts' =
                      [connected_accounts EXCEPT
                         ![account_id]["last_seen"] = isoformat(now)]
               /\ Goto(t, "hb_equity",
                       [op |-> "heartbeat", data |-> data,
                        account_id |-> account_id,
                        before |-> connected_accounts[account_id],
                        seen |-> isoformat(now)])
          ELSE /\ Return(t, [op |-> "heartbeat", status |-> 200])
               /\ UNCHANGED connected_accounts
    /\ UNCHANGED <<master_account, accounts_lock, recent_signals, signals_lock,
                   now, cleanup, published>>

\* Lines 210-218 and 226-229: without an account_id the request is refused.
\* Else accounts_lock is taken; an unknown id is logged and answered with
\* success, a known id gets its last_seen written.
heartbeat_begin(t, data) ==
    /\ Accept(t)
    /\ LET account_id == Get(data, "account_id", None)
       IN IF Falsy(account_id)
          THEN /\ Return(t, [op |-> "heartbeat", status |-> 400])
               /\ UNCHANGED <<connected_accounts, accounts_lock>>
          ELSE /\ accounts_lock = "free"
               /\ IF account_id \in DOMAIN connected_accounts
                  THEN /\ connected_accounts' =
                              [connected_accounts EXCEPT
                                 ![account_id]["last_seen"] = isoformat(now)]
                       /\ accounts_lock' = t
                       /\ Goto(t, "hb_equity",
                               [op |-> "heartbeat", data |-> data,
                                account_id |-> account_id,
                                before |-> connected_accounts[account_id],
                                seen |-> isoformat(now)])
                  ELSE /\ Return(t, [op |-> "heartbeat", status |-> 200])
                       /\ UNCHANGED <<connected_accounts, accounts_lock>>
    /\ UNCHANGED <<master_account, recent_signals, signals_lock, now, cleanup,
                   published>>

\* connected_accounts[account_id][field] = value: a KeyError when the id is
\* gone leaves the "with" block (the lock is released) and is answered 500.
heartbeat_write(t, next, field, value) ==
    LET account_id == loc[t].account_id
    IN IF account_id \in DOMAIN connected_accounts
       THEN /\ connected_accounts' =
                   [connected_accounts EXCEPT ![account_id][field] = value]
            /\ IF next = "idle"
               THEN /\ accounts_lock' = "free"
                    /\ Return(t, [op |-> "heartbeat", status |-> 200])
               ELSE /\ UNCHANGED accounts_lock
                    /\ Goto(t, next, loc[t])
       ELSE /\ UNCHANGED connected_accounts
            /\ accounts_lock' = "free"
            /\ Return(t, [op |-> "heartbeat", status |-> 500])

\* Line 219: equity, the stored value when the request has none
heartbeat_equity(t) ==
    /\ pc[t] = "hb_equity"
    /\ heartbeat_write(t, "hb_profit", "equity",
                       Get(loc[t].data, "equity",
                           Get(Get(connected_accounts, loc[t].account_id, EmptyDict),
                               "equity", None)))
    /\ UNCHANGED <<master_account, recent_signals, signals_lock, now, cleanup,
                   published, requests>>

\* heartbeat_profit with data.get('profit', 0)
heartbeat_profit_default_zero(t) ==
    /\ pc[t] = "hb_profit"
    /\ heartbeat_write(t, "hb_status", "profit", Get(loc[t].data, "profit", 0))
    /\ UNCHANGED <<master_account, recent_signals, signals_lock, now, cleanup,
                   published, requests>>

\* Line 220: profit, the stored value when the request has none
heartbeat_profit(t) ==
    /\ pc[t] = "hb_profit"
    /\ heartbeat_write(t, "hb_status", "profit",
                       Get(loc[t].data, "profit",
                           Get(Get(connected_accounts, loc[t].account_id, EmptyDict),
                               "profit", None)))
    /\ UNCHANGED <<master_account, recent_signals, signals_lock, now, cleanup,
                   published, requests>>

\* Lines 221-229: status; the lock is released and success is returned
heartbeat_status(t) ==
    /\ pc[t] = "hb_status"
    /\ heartbeat_write(t, "idle", "status", "connected")
    /\ UNCHANGED <<master_account, recent_signals, signals_lock, now, cleanup,
                   published, requests>>

(***************************************************************************)
(* POST /disconnect                                                        *)
(***************************************************************************)
\* disconnect that clears the master pointer whoever disconnects
disconnect_clears_any(t, data) ==
    /\ Accept(t)
    /\ accounts_lock = "free"
    /\ LET account_id == Get(data, "account_id", None)
       IN /\ IF account_id \in DOMAIN connected_accounts
             THEN /\ connected_accounts' =
                         [connected_accounts EXCEPT
                            ![account_id]["status"] = "disconnected"]
                  /\ master_account' = None
             ELSE UNCHANGED <<connected_accounts, master_account>>
          /\ Return(t, [op |-> "disconnect", status |-> 200])
    /\ UNCHANGED <<recent_signals, accounts_lock, signals_lock, now, cleanup,
                   published>>

\* disconnect that deletes the account
disconnect_removes(t, data) ==
    /\ Accept(t)
    /\ accounts_lock = "free"
    /\ LET account_id == Get(data, "account_id", None)
       IN /\ connected_accounts' = Without(connected_accounts, {account_id})
          /\ master_account' = IF account_id = master_account THEN None
                                ELSE master_account
          /\ Return(t, [op |-> "disconnect", status |-> 200])
    /\ UNCHANGED <<recent_signals, accounts_lock, signals_lock, now, cleanup,
                   published>>

\* Lines 240-260: under accounts_lock a known account is marked
\* disconnected, and the master pointer is cleared when it names that account.
disconnect(t, data) ==
    /\ Accept(t)
    /\ LET account_id == Get(data, "account_id", None)
       IN IF Falsy(account_id)
          THEN /\ Return(t, [op |-> "disconnect", status |-> 400])
               /\ UNCHANGED <<connected_accounts, master_account>>
          ELSE /\ accounts_lock = "free"
               /\ IF account_id \in DOMAIN connected_accounts
                  THEN /\ connected_accounts' =
                              [connected_accounts EXCEPT
                                 ![account_id]["status"] = "disconnected"]
                       /\ master_account' =
                              IF account_id = master_account THEN None
                              ELSE master_account
                  ELSE UNCHANGED <<connected_accounts, master_account>>
               /\ Return(t, [op |-> "disconnect", status |-> 200])
    /\ UNCHANGED <<recent_signals, accounts_lock, signals_lock, now, cleanup,
                   published>>

(***************************************************************************)
(* cleanup_stale_connections: the background thread.  time.sleep(60) only  *)
(* delays a cycle, so a cycle may start at any time.                       *)
(***************************************************************************)
\* Lines 38-45: accounts_lock is taken, the clock is read once and every
\* account is tested against it.
cleanup_scan ==
    /\ cleanup.pc = "sleep"
    /\ accounts_lock = "free"
    /\ accounts_lock' = "cleanup"
    /\ cleanup' = [cleanup EXCEPT
                     !.pc = "evict",
                     !.current_time = now,
                     !.stale_accounts =
                         {acc_id \in DOMAIN connected_accounts :
                             is_stale(connected_accounts[acc_id], now)}]
    /\ UNCHANGED <<connected_accounts, master_account, recent_signals,
                   signals_lock, now, pc, loc, response, published, requests>>

\* cleanup_evict that leaves the master pointer alone
cleanup_evict_keeps_master ==
    /\ cleanup.pc = "evict"
    /\ connected_accounts' = Without(connected_accounts, cleanup.stale_accounts)
    /\ accounts_lock' = "free"
    /\ cleanup' = [cleanup EXCEPT
                     !.pc = "sleep",
                     !.current_time = 0,
                     !.stale_accounts = {}]
    /\ UNCHANGED <<master_account, recent_signals, signals_lock, now, pc, loc,
                   response, published, requests>>

\* Lines 47-54: every stale account is deleted, the master pointer is cleared
\* when it names one of them, and the lock is released.
cleanup_evict ==
    /\ cleanup.pc = "evict"
    /\ connected_accounts' = Without(connected_accounts, cleanup.stale_accounts)
    /\ master_account' =
           IF master_account # None /\ master_account \in cleanup.stale_accounts
           THEN None ELSE master_account
    /\ accounts_lock' = "free"
    /\ cleanup' = [cleanup EXCEPT
                     !.pc = "sleep",
                     !.current_time = 0,
                     !.stale_accounts = {}]
    /\ UNCHANGED <<recent_signals, signals_lock, now, pc, loc, response,
                   published, requests>>

\* cleanup_error that lets the exception end the thread
cleanup_error_terminates ==
    /\ cleanup.pc = "evict"
    /\ accounts_lock' = "free"
    /\ cleanup' = [cleanup EXCEPT
                     !.pc = "dead",
                     !.current_time = 0,
                     !.stale_accounts = {},
                     !.error_logged = TRUE]
    /\ UNCHANGED <<connected_accounts, master_account, recent_signals,
                   signals_lock, now, pc, loc, response, published, requests>>

\* Lines 35, 38 and 56-57: an exception raised inside the cycle leaves the
\* "with" block, which releases accounts_lock; "except Exception" logs it and
\* the loop goes back to sleep.  Nothing has been deleted.
cleanup_error ==
    /\ cleanup.pc = "evict"
    /\ accounts_lock' = "free"
    /\ cleanup' = [cleanup EXCEPT
                     !.pc = "sleep",
                     !.current_time = 0,
                     !.stale_accounts = {},
                     !.error_logged = TRUE]
    /\ UNCHANGED <<connected_accounts, master_account, recent_signals,
                   signals_lock, now, pc, loc, response, published, requests>>

(***************************************************************************)
(* POST /signal                                                            *)
(***************************************************************************)
\* f"sig_{int(time.time())}_{len(recent_signals)}": the text is made of the
\* second and the length, and two ids are equal exactly when both are.
signal_id(sec, n) == <<"sig", sec, n>>

\* Lines 81-86: the server's three fields, then the payload's fields over them
signal_data(sec, n, timestamp, master, data) ==
    Merge([signal_id |-> signal_id(sec, n),
           timestamp |-> timestamp,
           master_account |-> master],
          data)

\* Lines 72-82: a wrong key is answered 401 and an empty body 400; else the
\* clock is read for the id: int(time.time()).
handle_signal_begin(t, req) ==
    /\ Accept(t)
    /\ IF req.api_key # API_KEY
       THEN Return(t, [op |-> "signal", status |-> 401])
       ELSE IF req.data = EmptyDict
       THEN Return(t, [op |-> "signal", status |-> 400])
       ELSE Goto(t, "sig_len",
                 [op |-> "signal", data |-> req.data,
                  sec |-> now \div TicksPerSecond])
    /\ UNCHANGED <<connected_accounts, master_account, recent_signals,
                   accounts_lock, signals_lock, now, cleanup, published>>

\* Line 82: len(recent_signals), read without signals_lock
handle_signal_len(t) ==
    /\ pc[t] = "sig_len"
    /\ Goto(t, "sig_time", loc[t] @@ [n |-> Len(recent_signals)])
    /\ UNCHANGED <<connected_accounts, master_account, recent_signals,
                   accounts_lock, signals_lock, now, cleanup, published, requests>>

\* Line 83: time.time()
handle_signal_time(t) ==
    /\ pc[t] = "sig_time"
    /\ Goto(t, "sig_master", loc[t] @@ [timestamp |-> now])
    /\ UNCHANGED <<connected_accounts, master_account, recent_signals,
                   accounts_lock, signals_lock, now, cleanup, published, requests>>

\* Line 84: "master_account if master_account else 'no_master'" reads the
\* global once for the test, without accounts_lock ...
handle_signal_master(t) ==
    /\ pc[t] = "sig_master"
    /\ IF master_account # None
       THEN Goto(t, "sig_master2", loc[t] @@ [tested |-> master_account])
       ELSE Goto(t, "sig_append",
                 [op |-> "signal", tested |-> master_account, taken |-> master_account,
                  signal_data |-> signal_data(loc[t].sec, loc[t].n, loc[t].timestamp,
                                              "no_master", loc[t].data)])
    /\ UNCHANGED <<connected_accounts, master_account, recent_signals,
                   accounts_lock, signals_lock, now, cleanup, published, requests>>

\* ... and once more for the value, when the test found it set.
handle_signal_master2(t) ==
    /\ pc[t] = "sig_master2"
    /\ Goto(t, "sig_append",
            [op |-> "signal", tested |-> loc[t].tested, taken |-> master_account,
             signal_data |-> signal_data(loc[t].sec, loc[t].n, loc[t].timestamp,
                                         master_account, loc[t].data)])
    /\ UNCHANGED <<connected_accounts, master_account, recent_signals,
                   accounts_lock, signals_lock, now, cleanup, published, requests>>

\* Lines 88-89: signals_lock is taken and the signal appended
handle_signal_append(t) ==
    /\ pc[t] = "sig_append"
    /\ signals_lock = "free"
    /\ signals_lock' = t
    /\ recent_signals' = Append(recent_signals, loc[t].signal_data)
    /\ published' = Append(published, loc[t].signal_data)
    /\ Goto(t, "sig_trim", loc[t])
    /\ UNCHANGED <<connected_accounts, master_account, accounts_lock, now,
                   cleanup, requests>>

\* recent_signals.pop(): the newest entry goes instead of the oldest
pop_last(signals) == SubSeq(signals, 1, Len(signals) - 1)

\* recent_signals.pop(0)
pop_first(signals) == Tail(signals)

\* Lines 91-100: over MaxSignals entries the oldest is dropped; the lock is
\* released and the id returned.
handle_signal_trim(t) ==
    /\ pc[t] = "sig_trim"
    /\ recent_signals' = IF Len(recent_signals) > MaxSignals
                         THEN pop_first(recent_signals) ELSE recent_signals
    /\ signals_lock' = "free"
    /\ Return(t, [op |-> "signal", status |-> 200])
    /\ UNCHANGED <<connected_accounts, master_account, accounts_lock, now,
                   cleanup, published, requests>>

(***************************************************************************)
(* GET /signals                                                            *)
(***************************************************************************)
\* Lines 110-111: hours (24 when absent) and the cutoff, from the clock
get_signals_begin(t, args) ==
    /\ Accept(t)
    /\ LET hours == Get(args, "hours", DefaultHours)
       IN Goto(t, "sig_filter",
               [op |-> "signals", hours |-> hours, asked_at |-> now,
                cutoff_time |-> now - hours * SecondsPerHour * TicksPerSecond])
    /\ UNCHANGED <<connected_accounts, master_account, recent_signals,
                   accounts_lock, signals_lock, now, cleanup, published>>

\* [s for s in signals if s['timestamp'] >= cutoff_time], oldest first
RECURSIVE filtered_signals(_, _)
filtered_signals(signals, cutoff_time) ==
    IF signals = <<>> THEN <<>>
    ELSE IF Head(signals)["timestamp"] >= cutoff_time
         THEN <<Head(signals)>> \o filtered_signals(Tail(signals), cutoff_time)
         ELSE filtered_signals(Tail(signals), cutoff_time)

\* Lines 113-122: under signals_lock the log is filtered; a timestamp that
\* is no number makes the comparison raise, and the handler answers 500.
get_signals_filter(t) ==
    /\ pc[t] = "sig_filter"
    /\ signals_lock = "free"
    /\ IF \E i \in 1..Len(recent_signals) : ~IsNumber(recent_signals[i]["timestamp"])
       THEN Return(t, [op |-> "signals", status |-> 500])
       ELSE LET filtered == filtered_signals(recent_signals, loc[t].cutoff_time)
            IN Return(t, [op |-> "signals", status |-> 200,
                          signals |-> filtered, count |-> Len(filtered)])
    /\ UNCHANGED <<connected_accounts, master_account, recent_signals,
                   accounts_lock, signals_lock, now, cleanup, published, requests>>

(***************************************************************************)
(* GET /health                                                             *)
(***************************************************************************)
\* Lines 286-289: the accounts are counted under accounts_lock
health_check_begin(t) ==
    /\ Accept(t)
    /\ accounts_lock = "free"
    /\ LET masters == {a \in DOMAIN connected_accounts :
                          connected_accounts[a]["is_master"]}
       IN Goto(t, "health_signals",
               [op |-> "health",
                accounts_count |-> Cardinality(DOMAIN connected_accounts),
                slave_count |-> Cardinality(DOMAIN connected_accounts \ masters),
                master_count |-> Cardinality(masters)])
    /\ UNCHANGED <<connected_accounts, master_account, recent_signals,
                   accounts_lock, signals_lock, now, cleanup, published>>

\* Line 297: len(recent_signals), read without signals_lock
health_check_signals(t) ==
    /\ pc[t] = "health_signals"
    /\ Goto(t, "health_master", loc[t] @@ [signals_count |-> Len(recent_signals)])
    /\ UNCHANGED <<connected_accounts, master_account, recent_signals,
                   accounts_lock, signals_lock, now, cleanup, published, requests>>

\* Lines 298-299: master_account is not None, read without accounts_lock
health_check_master(t) ==
    /\ pc[t] = "health_master"
    /\ Return(t, [op |-> "health", status |-> 200,
                  accounts_count |-> loc[t].accounts_count,
                  slave_count |-> loc[t].slave_count,
                  master_count |-> loc[t].master_count,
                  signals_count |-> loc[t].signals_count,
                  master_online |-> master_account # None])
    /\ UNCHANGED <<connected_accounts, master_account, recent_signals,
                   accounts_lock, signals_lock, now, cleanup, published, requests>>

(***************************************************************************)
(* GET /connected-accounts                                                 *)
(***************************************************************************)
\* Lines 186-187: connected_accounts.copy() under accounts_lock
get_connected_accounts_begin(t) ==
    /\ Accept(t)
    /\ accounts_lock = "free"
    /\ Goto(t, "list_master",
            [op |-> "accounts", accounts_copy |-> connected_accounts])
    /\ UNCHANGED <<connected_accounts, master_account, recent_signals,
                   accounts_lock, signals_lock, now, cleanup, published>>

\* Lines 195-200: the response is built after the lock is released;
\* master_account is read here, at line 198.
get_connected_accounts_master(t) ==
    /\ pc[t] = "list_master"
    /\ Return(t, [op |-> "accounts", status |-> 200,
                  accounts |-> loc[t].accounts_copy,
                  total_count |-> Cardinality(DOMAIN loc[t].accounts_copy),
                  master_account |-> master_account])
    /\ UNCHANGED <<connected_accounts, master_account, recent_signals,
                   accounts_lock, signals_lock, now, cleanup, published, requests>>

(***************************************************************************)
(* GET /master/status: no lock is taken.  Line 271 reads master_account    *)
(* for the test and again for "in connected_accounts"; line 272 reads it a *)
(* third time for the subscript.                                           *)
(***************************************************************************)
\* Lines 270-271: "master_account and ..."
get_master_status_begin(t) ==
    /\ Accept(t)
    /\ IF master_account = None
       THEN Return(t, [op |-> "master_status", status |-> 200,
                       master_account |-> None, has_master |-> FALSE])
       ELSE Goto(t, "ms_in", [op |-> "master_status"])
    /\ UNCHANGED <<connected_accounts, master_account, recent_signals,
                   accounts_lock, signals_lock, now, cleanup, published>>

\* Line 271: "... master_account in connected_accounts"
get_master_status_in(t) ==
    /\ pc[t] = "ms_in"
    /\ IF master_account \in DOMAIN connected_accounts
       THEN Goto(t, "ms_subscript", loc[t])
       ELSE Return(t, [op |-> "master_status", status |-> 200,
                       master_account |-> None, has_master |-> FALSE])
    /\ UNCHANGED <<connected_accounts, master_account, recent_signals,
                   accounts_lock, signals_lock, now, cleanup, published, requests>>

\* Lines 272-280: connected_accounts[master_account]; a KeyError is caught at
\* line 279 and answered 500.
get_master_status_subscript(t) ==
    /\ pc[t] = "ms_subscript"
    /\ IF master_account \in DOMAIN connected_accounts
       THEN Return(t, [op |-> "master_status", status |-> 200,
                       master_account |-> connected_accounts[master_account],
                       has_master |-> TRUE])
       ELSE Return(t, [op |-> "master_status", status |-> 500])
    /\ UNCHANGED <<connected_accounts, master_account, recent_signals,
                   accounts_lock, signals_lock, now, cleanup, published, requests>>

(***************************************************************************)
(* The registry: register, heartbeat, disconnect and the cleanup thread    *)
(***************************************************************************)
NextRegistry ==
    \/ Tick(RegistryInstants)
    \/ \E t \in Threads, req \in RegisterRequests : register_account_begin(t, req)
    \/ \E t \in Threads : register_account_seen(t)
    \/ \E t \in Threads : register_account_store(t)
    \/ \E t \in Threads, data \in HeartbeatRequests : heartbeat_begin(t, data)
    \/ \E t \in Threads : heartbeat_equity(t)
    \/ \E t \in Threads : heartbeat_profit(t)
    \/ \E t \in Threads : heartbeat_status(t)
    \/ \E t \in Threads, data \in DisconnectRequests : disconnect(t, data)
    \/ cleanup_scan
    \/ cleanup_evict

SpecRegistry == Init /\ [][NextRegistry]_vars

(***************************************************************************)
(* The signal log with its publisher's registration: register and          *)
(* disconnect of the master, publish, query                                *)
(***************************************************************************)
MasterRequests == {req \in RegisterRequests :
                      Get(req.data, "account_id", None) = "A1"
                      /\ Get(req.data, "is_master", FALSE)}

NextSignals ==
    \/ Tick(SignalInstants)
    \/ \E t \in Threads, req \in MasterRequests : register_account_begin(t, req)
    \/ \E t \in Threads : register_account_seen(t)
    \/ \E t \in Threads : register_account_store(t)
    \/ \E t \in Threads : disconnect(t, [account_id |-> "A1"])
    \/ \E t \in Threads, req \in SignalRequests : handle_signal_begin(t, req)
    \/ \E t \in Threads : handle_signal_len(t)
    \/ \E t \in Threads : handle_signal_time(t)
    \/ \E t \in Threads : handle_signal_master(t)
    \/ \E t \in Threads : handle_signal_master2(t)
    \/ \E t \in Threads : handle_signal_append(t)
    \/ \E t \in Threads : handle_signal_trim(t)
    \/ \E t \in Threads, args \in QueryRequests : get_signals_begin(t, args)
    \/ \E t \in Threads : get_signals_filter(t)

SpecSignals == Init /\ [][NextSignals]_vars

(***************************************************************************)
(* The signal log at its cap: publish and the health check, started with   *)
(* the log as MaxSignals - 1 publishes of the first second, one after the  *)
(* other and with no master registered, leave it                           *)
(***************************************************************************)
NearlyFullLog == [i \in 1..(MaxSignals - 1) |->
                     signal_data(0, i - 1, 0, "no_master", PlainPayload)]

InitCap ==
    /\ connected_accounts = EmptyDict
    /\ master_account = None
    /\ recent_signals = NearlyFullLog
    /\ accounts_lock = "free"
    /\ signals_lock = "free"
    /\ now = 0
    /\ pc = [t \in Threads |-> "idle"]
    /\ loc = [t \in Threads |-> Idle]
    /\ cleanup = [pc |-> "sleep", current_time |-> 0, stale_accounts |-> {},
                  error_logged |-> FALSE]
    /\ response = [op |-> "none", status |-> 0]
    /\ published = NearlyFullLog
    /\ requests = 0

NextCap ==
    \/ Tick({0, 1})
    \/ \E t \in Threads : handle_signal_begin(t, [api_key |-> API_KEY, data |-> PlainPayload])
    \/ \E t \in Threads : handle_signal_len(t)
    \/ \E t \in Threads : handle_signal_time(t)
    \/ \E t \in Threads : handle_signal_master(t)
    \/ \E t \in Threads : handle_signal_append(t)
    \/ \E t \in Threads : handle_signal_trim(t)
    \/ \E t \in Threads : health_check_begin(t)
    \/ \E t \in Threads : health_check_signals(t)
    \/ \E t \in Threads : health_check_master(t)

SpecCap == InitCap /\ [][NextCap]_vars

(***************************************************************************)
(* The cleanup thread over the life of the process: an account registers   *)
(* and heartbeats, cycles succeed or fail.  The thread that holds          *)
(* accounts_lock goes on (a heartbeat between its writes, a cycle between  *)
(* scan and evict), the sleep of the loop ends, and an exception is        *)
(* transient: of the cycles that keep coming, not every one fails.         *)
(***************************************************************************)
ReaperRegisterRequests ==
    {req \in RegisterRequests : Get(req.data, "account_id", None) = "A1"}

ReaperHeartbeatRequests ==
    {data \in HeartbeatRequests : data["account_id"] = "A1"}

NextReaper ==
    \/ Tick(RegistryInstants)
    \/ \E t \in Threads, req \in ReaperRegisterRequests : register_account_begin(t, req)
    \/ \E t \in Threads : register_account_seen(t)
    \/ \E t \in Threads : register_account_store(t)
    \/ \E t \in Threads, data \in ReaperHeartbeatRequests : heartbeat_begin(t, data)
    \/ \E t \in Threads : heartbeat_equity(t)
    \/ \E t \in Threads : heartbeat_profit(t)
    \/ \E t \in Threads : heartbeat_status(t)
    \/ cleanup_scan
    \/ cleanup_evict
    \/ cleanup_error

SpecReaper ==
    /\ Init
    /\ [][NextReaper]_vars
    /\ WF_vars(\E t \in Threads : heartbeat_equity(t))
    /\ WF_vars(\E t \in Threads : heartbeat_profit(t))
    /\ WF_vars(\E t \in Threads : heartbeat_status(t))
    /\ WF_vars(cleanup_scan)
    /\ SF_vars(cleanup_evict)

(***************************************************************************)
(* The readers of the registry beside its writers: register, disconnect    *)
(* and the cleanup thread, with the account list and the master status     *)
(***************************************************************************)
NextReaders ==
    \/ Tick(RegistryInstants)
    \/ \E t \in Threads, req \in RegisterRequests : register_account_begin(t, req)
    \/ \E t \in Threads : register_account_seen(t)
    \/ \E t \in Threads : register_account_store(t)
    \/ \E t \in Threads, data \in DisconnectRequests : disconnect(t, data)
    \/ cleanup_scan
    \/ cleanup_evict
    \/ \E t \in Threads : get_connected_accounts_begin(t)
    \/ \E t \in Threads : get_connected_accounts_master(t)
    \/ \E t \in Threads : get_master_status_begin(t)
    \/ \E t \in Threads : get_master_status_in(t)
    \/ \E t \in Threads : get_master_status_subscript(t)

SpecReaders == Init /\ [][NextReaders]_vars

(***************************************************************************)
(* Properties of the registry                                              *)
(***************************************************************************)
HeartbeatSteps == {"hb_equity", "hb_profit", "hb_status"}

\* C1: in every state the master pointer is None or the key of one account
\* of the registry, whose record carries that id.
C1_MasterIsRegistered ==
    \/ master_account = None
    \/ /\ master_account \in DOMAIN connected_accounts
       /\ connected_accounts[master_account]["account_id"] = master_account
       /\ Cardinality({a \in DOMAIN connected_accounts : a = master_account}) = 1

\* A1 registered as master, A2 took the pointer over, A1 disconnected: the
\* pointer names A2 and both are in the registry.
C1_Witness ==
    /\ master_account = "A2"
    /\ DOMAIN connected_accounts = {"A1", "A2"}
    /\ connected_accounts["A1"]["is_master"]
    /\ connected_accounts["A1"]["status"] = "disconnected"

\* C2: a cleanup cycle clears the master pointer exactly when it removes the
\* account the pointer names, and a disconnect clears it exactly when the
\* disconnected account is the one it names; otherwise the pointer is unchanged.
C2_EvictionClearsOnlyOwnMaster ==
    [][ /\ (cleanup.pc = "evict" /\ cleanup'.pc = "sleep") =>
              master_account' =
                  IF master_account \in
                         (DOMAIN connected_accounts \ DOMAIN connected_accounts')
                  THEN None ELSE master_account
        /\ \A t \in Threads, data \in DisconnectRequests :
              disconnect(t, data) =>
                  master_account' =
                      IF data["account_id"] = master_account
                      THEN None ELSE master_account
      ]_vars

\* The last handler to return was a disconnect of A1 while A2 was the master.
C2_Witness ==
    /\ response = [op |-> "disconnect", status |-> 200]
    /\ master_account = "A2"
    /\ "A1" \in DOMAIN connected_accounts
    /\ connected_accounts["A1"]["status"] = "disconnected"

\* C8: a heartbeat for an id that is not in the registry is answered with
\* success in one step and changes neither the accounts nor the master pointer.
C8_UnknownHeartbeat ==
    [][ \A t \in Threads, data \in HeartbeatRequests :
           (/\ data["account_id"] \notin DOMAIN connected_accounts
            /\ heartbeat_begin(t, data))
           => /\ response' = [op |-> "heartbeat", status |-> 200]
              /\ pc'[t] = "idle"
              /\ connected_accounts' = connected_accounts
              /\ master_account' = master_account
      ]_vars

\* The only request so far was a heartbeat; it was answered with success and
\* the registry is still empty.
C8_Witness ==
    /\ requests = 1
    /\ response = [op |-> "heartbeat", status |-> 200]
    /\ connected_accounts = EmptyDict
    /\ master_account = None

\* What one heartbeat makes of a record, run alone.
heartbeat_alone(before, data, seen) ==
    [before EXCEPT !["last_seen"] = seen,
                   !["equity"] = Get(data, "equity", @),
                   !["profit"] = Get(data, "profit", @),
                   !["status"] = "connected"]

\* C9: when a heartbeat returns, the record is the one the heartbeat alone
\* makes of the record it found; when a register returns, the record is the
\* one a single register request makes.  No record mixes the two.
C9_RegisterHeartbeatSerialized ==
    [][ \A t \in Threads :
          /\ (pc[t] = "hb_status" /\ pc'[t] = "idle") =>
                /\ response'.status = 200
                /\ loc[t].account_id \in DOMAIN connected_accounts'
                /\ connected_accounts'[loc[t].account_id] =
                       heartbeat_alone(loc[t].before, loc[t].data, loc[t].seen)
          /\ (pc[t] = "reg_store" /\ pc'[t] = "idle") =>
                LET account_id == loc[t].account_data["account_id"]
                    acc == connected_accounts'[account_id]
                IN \E req \in RegisterRequests :
                      /\ "account_id" \in DOMAIN req.data
                      /\ acc = account_data(req.data, req.remote_addr,
                                            acc["connected_since"], acc["last_seen"])
      ]_vars

\* A heartbeat for an id is between its writes while a register of the same
\* id, with another name, waits to store its record.
C9_Witness ==
    \E t \in Threads, u \in Threads :
        /\ pc[t] \in HeartbeatSteps
        /\ pc[u] = "reg_store"
        /\ loc[u].account_data["account_id"] = loc[t].account_id
        /\ loc[u].account_data["name"] # loc[t].before["name"]

\* C10: a cleanup cycle removes exactly the accounts whose last_seen is more
\* than StaleSeconds before the time the cycle read, keeps every other
\* record as it is, and every account it removes is that old by the clock
\* at the moment it is removed.
C10_CleanupRemovesExactlyStale ==
    [][ (cleanup.pc = "evict" /\ cleanup'.pc = "sleep") =>
          LET age(a, clock) ==
                  clock - (connected_accounts[a]["last_seen"].sec * TicksPerSecond
                           + connected_accounts[a]["last_seen"].frac)
              removed == DOMAIN connected_accounts \ DOMAIN connected_accounts'
          IN /\ DOMAIN connected_accounts' \subseteq DOMAIN connected_accounts
             /\ removed = {a \in DOMAIN connected_accounts :
                              age(a, cleanup.current_time) > StaleSeconds * TicksPerSecond}
             /\ \A a \in removed : age(a, now) > StaleSeconds * TicksPerSecond
             /\ \A a \in DOMAIN connected_accounts' :
                    connected_accounts'[a] = connected_accounts[a]
      ]_vars

\* The cycle has scanned and found a stale account, and a register of that
\* same id, with a fresh last_seen, waits for the lock.
C10_Witness ==
    /\ cleanup.pc = "evict"
    /\ \E t \in Threads :
          /\ pc[t] = "reg_store"
          /\ loc[t].account_data["account_id"] \in cleanup.stale_accounts
          /\ ~is_stale(loc[t].account_data, now)

(***************************************************************************)
(* Properties of the signal log                                            *)
(***************************************************************************)
\* C3: every signal published gets a signal_id that no other signal
\* published in the process lifetime has.
C3_SignalIdsUnique ==
    \A i \in 1..Len(published), j \in 1..Len(published) :
        i # j => published[i]["signal_id"] # published[j]["signal_id"]

\* C4: the log is never seen with more than MaxSignals entries: it holds at
\* most MaxSignals whenever no publisher is inside its critical section, and
\* the size the health check reads and reports is at most MaxSignals.
C4_LogSizeWithinCap ==
    /\ signals_lock = "free" => Len(recent_signals) <= MaxSignals
    /\ \A t \in Threads :
          pc[t] = "health_master" => loc[t].signals_count <= MaxSignals
    /\ response.op = "health" => response.signals_count <= MaxSignals

Min(a, b) == IF a <= b THEN a ELSE b

\* C5: after n completed publishes the log is the last min(n, MaxSignals)
\* signals published, in the order they were appended.
C5_LogIsLastPublished ==
    signals_lock = "free" =>
        LET n == Len(published)
        IN recent_signals = SubSeq(published, n - Min(n, MaxSignals) + 1, n)

\* Two publishes have completed: the first filled the log, the second made it
\* drop an entry.
C5_Witness ==
    /\ signals_lock = "free"
    /\ Len(published) = MaxSignals + 1
    /\ Len(recent_signals) = MaxSignals

\* C6: a query for h hours answers with exactly the logged signals whose
\* timestamp is at least the time of the query minus h hours, oldest first,
\* and leaves the log as it is.
C6_QueryReturnsWindow ==
    [][ \A t \in Threads :
          (pc[t] = "sig_filter" /\ pc'[t] = "idle") =>
             LET in_window(s) ==
                     s["timestamp"] >=
                         loc[t].asked_at - loc[t].hours * SecondsPerHour * TicksPerSecond
             IN /\ response'.op = "signals"
                /\ response'.status = 200
                /\ response'.signals = SelectSeq(recent_signals, in_window)
                /\ recent_signals' = recent_signals
      ]_vars

\* master_account as a signal records it
snapshot(master) == IF master = None THEN "no_master" ELSE master

\* C7: the master_account a signal is stored with is the value the master
\* pointer had at an instant of the publish, the sentinel "no_master" standing
\* for no master.
C7_StoredMasterIsSnapshot ==
    \A t \in Threads :
        pc[t] = "sig_trim" =>
            recent_signals[Len(recent_signals)]["master_account"]
                \in {snapshot(loc[t].tested), snapshot(loc[t].taken)}

(***************************************************************************)
(* Properties of the cleanup thread                                        *)
(***************************************************************************)
\* C11: the cleanup thread never ends.  Every cycle, a failed one included,
\* ends with accounts_lock released and the thread asleep; a new cycle starts
\* again and again; and an account that is stale is in the end removed,
\* unless a heartbeat or a register refreshes it.
C11_ReaperNeverTerminates ==
    /\ [](cleanup.pc \in {"sleep", "evict"})
    /\ [](accounts_lock = "cleanup" <=> cleanup.pc = "evict")
    /\ (cleanup.pc = "evict") ~> (cleanup.pc = "sleep" /\ accounts_lock = "free")
    /\ []<>(cleanup.pc = "evict")
    /\ \A a \in {"A1"} :
          (a \in DOMAIN connected_accounts /\ is_stale(connected_accounts[a], now))
            ~> (a \notin DOMAIN connected_accounts
                \/ ~is_stale(connected_accounts[a], now))

\* A cycle has failed, and the account that registered is gone: a later cycle
\* removed it.
C11_Witness ==
    /\ cleanup.error_logged
    /\ cleanup.pc = "sleep"
    /\ response = [op |-> "register", status |-> 200]
    /\ connected_accounts = EmptyDict

(***************************************************************************)
(* Properties of the readers of the registry                               *)
(***************************************************************************)
\* C12: the master status never ends in an internal error: it answers 200,
\* with no master or with an account the registry holds when it answers.
C12_MasterStatusAtomic ==
    [][ \A t \in Threads :
          (pc[t] \in {"ms_in", "ms_subscript"} /\ pc'[t] = "idle") =>
              /\ response'.op = "master_status"
              /\ response'.status = 200
              /\ \/ ~response'.has_master
                 \/ \E a \in DOMAIN connected_accounts :
                       response'.master_account = connected_accounts[a]
      ]_vars

\* C13: the master the account list returns is None or a key of the mapping
\* it returns.
C13_ListedMasterIsListed ==
    response.op = "accounts" =>
        \/ response.master_account = None
        \/ response.master_account \in DOMAIN response.accounts

(***************************************************************************)
(* Properties of register, heartbeat and disconnect                        *)
(***************************************************************************)
\* C14: a register without an account_id, or with an empty one, is answered
\* 400 at once and leaves the accounts and the master pointer as they are,
\* whatever its is_master says.
C14_RegisterWithoutIdRefused ==
    [][ \A t \in Threads, req \in RegisterRequests :
           (/\ Falsy(Get(req.data, "account_id", None))
            /\ register_account_begin(t, req))
           => /\ response' = [op |-> "register", status |-> 400]
              /\ pc'[t] = "idle"
              /\ connected_accounts' = connected_accounts
              /\ master_account' = master_account
      ]_vars

\* A1 is the master, and the last request answered was a register that was
\* refused.
C14_Witness ==
    /\ response = [op |-> "register", status |-> 400]
    /\ master_account = "A1"
    /\ DOMAIN connected_accounts = {"A1"}

\* C15: when a register with is_master stores its record the master pointer
\* names its account_id, the id is added to the ids, and every record but the
\* one stored is what it was, the record of the master replaced included.
C15_RegisterChangesOwnRecordOnly ==
    [][ \A t \in Threads :
          (pc[t] = "reg_store" /\ pc'[t] = "idle") =>
              LET account_id == loc[t].account_data["account_id"]
              IN /\ loc[t].is_master => master_account' = account_id
                 /\ ~loc[t].is_master => master_account' = master_account
                 /\ connected_accounts'[account_id] = loc[t].account_data
                 /\ DOMAIN connected_accounts' =
                        DOMAIN connected_accounts \cup {account_id}
                 /\ \A a \in DOMAIN connected_accounts \ {account_id} :
                        connected_accounts'[a] = connected_accounts[a]
      ]_vars

\* A2 has just registered as master over A1, whose record still says
\* is_master and connected.
C15_Witness ==
    /\ response = [op |-> "register", status |-> 200]
    /\ master_account = "A2"
    /\ "A1" \in DOMAIN connected_accounts
    /\ connected_accounts["A1"]["is_master"]
    /\ connected_accounts["A1"]["status"] = "connected"

IdentityFields == {"account_id", "name", "is_master", "connected_since",
                   "ip_address", "license_owner", "license_key"}

\* C16: every step of a heartbeat on a known account leaves the ids, the
\* master pointer, every other account and the account's identity and
\* license fields as they are; when it returns, last_seen is the time it
\* read, status is connected, and equity and profit are the request's where
\* it has them and the values found otherwise.
C16_HeartbeatFrame ==
    [][ \A t \in Threads :
          /\ (pc'[t] # pc[t] /\ (pc[t] \in HeartbeatSteps \/ pc'[t] \in HeartbeatSteps)) =>
                LET account_id == IF pc[t] \in HeartbeatSteps
                                  THEN loc[t].account_id ELSE loc'[t].account_id
                IN /\ master_account' = master_account
                   /\ DOMAIN connected_accounts' = DOMAIN connected_accounts
                   /\ \A a \in DOMAIN connected_accounts \ {account_id} :
                          connected_accounts'[a] = connected_accounts[a]
                   /\ \A f \in IdentityFields :
                          connected_accounts'[account_id][f] =
                              connected_accounts[account_id][f]
          /\ (pc[t] = "hb_status" /\ pc'[t] = "idle") =>
                LET acc == connected_accounts'[loc[t].account_id]
                    before == loc[t].before
                    data == loc[t].data
                IN /\ response' = [op |-> "heartbeat", status |-> 200]
                   /\ acc["last_seen"] = loc[t].seen
                   /\ acc["status"] = "connected"
                   /\ acc["equity"] = IF "equity" \in DOMAIN data
                                      THEN data["equity"] ELSE before["equity"]
                   /\ acc["profit"] = IF "profit" \in DOMAIN data
                                      THEN data["profit"] ELSE before["profit"]
      ]_vars

\* A1, registered as master with profit 10, was disconnected and then sent a
\* heartbeat with equity 500 and no profit, the last request answered: it is
\* connected again, with the new equity and the profit it had.
C16_Witness ==
    /\ response = [op |-> "heartbeat", status |-> 200]
    /\ requests = MaxRequests
    /\ "A1" \in DOMAIN connected_accounts
    /\ connected_accounts["A1"]["equity"] = 500
    /\ connected_accounts["A1"]["profit"] = 10
    /\ connected_accounts["A1"]["status"] = "connected"
    /\ master_account = None

\* C17: a disconnect is answered with success and removes no account: of a
\* known id it changes the status to disconnected and nothing else in the
\* records, and clears the master pointer when it names that id; of an
\* unknown id, or of an account already disconnected that is not the master,
\* it changes nothing.  Only a cleanup cycle takes an id out of the registry.
C17_DisconnectNeverRemoves ==
    [][ /\ \A t \in Threads, data \in DisconnectRequests :
              disconnect(t, data) =>
                  LET account_id == data["account_id"]
                  IN /\ response' = [op |-> "disconnect", status |-> 200]
                     /\ DOMAIN connected_accounts' = DOMAIN connected_accounts
                     /\ \A a \in DOMAIN connected_accounts :
                            connected_accounts'[a] =
                                IF a = account_id
                                THEN [connected_accounts[a] EXCEPT
                                        !["status"] = "disconnected"]
                                ELSE connected_accounts[a]
                     /\ master_account' = IF master_account = account_id
                                           THEN None ELSE master_account
                     /\ (account_id \notin DOMAIN connected_accounts
                         \/ (connected_accounts[account_id]["status"] = "disconnected"
                             /\ master_account # account_id))
                          => /\ connected_accounts' = connected_accounts
                             /\ master_account' = master_account
        /\ ~(DOMAIN connected_accounts \subseteq DOMAIN connected_accounts')
              => (cleanup.pc = "evict" /\ cleanup'.pc = "sleep")
      ]_vars

\* Three requests, the last a disconnect: A1, registered as master, is still
\* in the registry, disconnected, and there is no master.
C17_Witness ==
    /\ response = [op |-> "disconnect", status |-> 200]
    /\ requests = MaxRequests
    /\ DOMAIN connected_accounts = {"A1"}
    /\ connected_accounts["A1"]["is_master"]
    /\ connected_accounts["A1"]["status"] = "disconnected"
    /\ master_account = None

\* C18: the timestamps of the logged signals never decrease from the oldest
\* to the newest position.
C18_LogOrderedByTimestamp ==
    \A i \in 1..Len(recent_signals), j \in 1..Len(recent_signals) :
        (/\ i < j
         /\ IsNumber(recent_signals[i]["timestamp"])
         /\ IsNumber(recent_signals[j]["timestamp"]))
        => recent_signals[i]["timestamp"] <= recent_signals[j]["timestamp"]

\* C19: whenever the master pointer names an account, the record of that
\* account has is_master true.
C19_MasterHasFlag ==
    (master_account # None /\ master_account \in DOMAIN connected_accounts)
        => connected_accounts[master_account]["is_master"] = TRUE

\* C19, amended: a register with is_master stores a record with is_master
\* true and points the master pointer at it; from then on the record the
\* pointer names has is_master true through every step but one: a register
\* of the master's own account_id without is_master, which overwrites the
\* record with is_master false and leaves the pointer on it.
C19_MasterHasFlagUntilReRegistered ==
    [][ LET stores(t) == pc[t] = "reg_store" /\ pc'[t] = "idle"
            id(t) == loc[t].account_data["account_id"]
            demotes(t) == stores(t) /\ ~loc[t].is_master /\ id(t) = master_account
        IN /\ \A t \in Threads :
                (stores(t) /\ loc[t].is_master) =>
                    /\ master_account' = id(t)
                    /\ connected_accounts'[id(t)]["is_master"] = TRUE
           /\ \A t \in Threads :
                demotes(t) =>
                    /\ master_account' = master_account
                    /\ connected_accounts'[id(t)]["is_master"] = FALSE
           /\ (C19_MasterHasFlag /\ ~(\E t \in Threads : demotes(t)))
                => C19_MasterHasFlag'
      ]_vars

\* A1 registered as master and then again as a slave with a license: the
\* pointer still names A1, whose record now says is_master false.
C19_Witness ==
    /\ master_account = "A1"
    /\ "A1" \in DOMAIN connected_accounts
    /\ connected_accounts["A1"]["is_master"] = FALSE
    /\ connected_accounts["A1"]["license_owner"] = "bob"

\* C20: while an account_id stays in the registry, no step makes its
\* last_seen earlier than it was.
C20_LastSeenNeverMovesBack ==
    [][ \A a \in DOMAIN connected_accounts \cap DOMAIN connected_accounts' :
           fromisoformat(connected_accounts'[a]["last_seen"])
               >= fromisoformat(connected_accounts[a]["last_seen"])
      ]_vars

====
